---- MODULE Spec2Model ----
(***************************************************************************)
(* Amazon US Beauty & Personal Care Top 100 collector (src/app.py).        *)
(*                                                                         *)
(* Six specifications over one set of variables:                           *)
(*   SpecParse  parse_http run on one page's candidate list                *)
(*   SpecMerge  merge_by_rank applied to three lists                       *)
(*   SpecPrice  the price fields parse_http derives from a card's text     *)
(*   SpecRender fetch_page_playwright step by step, call after call        *)
(*   Spec       main: fetch_products (static pass, rendering passes,       *)
(*              merges), snapshot storage, diff sections, notification     *)
(*   SpecBudget fetch_products alone, its requests and browser sessions   *)
(*              counted                                                    *)
(* A specification leaves the variables of the other machines at their    *)
(* idle values.                                                            *)
(*                                                                         *)
(* Data representation                                                     *)
(*   asin   a natural number; EmptyAsin (0) is the empty string            *)
(*   rank   an integer; NoRank (-1) is None                                *)
(*   title  a string; "" is the empty title                                *)
(*   a candidate node is [src, rank_in_page, title]: src holds the asin    *)
(*   sources extract_asin_from_node reads (data-asin of the node, of its   *)
(*   parent or grandparent, of its first descendant, and the asin of its   *)
(*   first matching link); rank_in_page and title are what                 *)
(*   extract_rank_from_node and the title chain of lines 203-210 resolve   *)
(*   a Product is [rank, asin, title] (brand, prices and url take no part  *)
(*   in placement, deduplication or merging); NoProduct is None            *)
(*   a dollar amount is a natural number of cents; NoPrice (-1) is None    *)
(*   a by_rank dict is the array r |-> by_rank.get(r) over the slots the   *)
(*   code reads (1..50 in parse_http, 1..100 in merge_by_rank)             *)
(***************************************************************************)
EXTENDS Integers, Sequences, FiniteSets

\* ------------------------------------------------------------------------
\* Program constants
\* ------------------------------------------------------------------------
NoRank == -1
EmptyAsin == 0
PerPage == 50
TopN == 100
NumPages == 2
NumUrls == 3
MaxAttempts == 3
UrlAccept == 48
HttpAccept == 96
FallbackBelow == 96
RetryBelow == 100
\* the yield below which fetch_page_playwright tries to recover
RecoverBelow == 45
\* the entry of slot_log for a candidate URL that raised
UrlRaised == -1
\* None as a price and as a discount
NoPrice == -1
NoDiscount == -1

\* ------------------------------------------------------------------------
\* Bounds of the model
\* ------------------------------------------------------------------------
\* longest free tail of candidates appended to a page's leading cards
MaxCands == 2
\* longest list handed to merge_by_rank in SpecMerge
MaxList == 2
\* largest number of dollar amounts in the text of a card
MaxPrices == 3
\* number of consecutive calls of fetch_page_playwright in SpecRender
MaxCalls == 2

VARIABLES
  \* parse_http
  candidates, parse_page_idx, node_i, by_rank, seen_asin, extras, out, js_out, parse_pc,
  \* merge_by_rank
  list_a, list_b, list_c, merged_flat, merged_left, merged_right, merged_self, merge_pc,
  \* fetch_by_http / fetch_by_playwright loop state
  page_idx, url_i, attempt, last_err, backoff, url_errs, slot_log, got, all_items,
  \* transport operations of a metered run: s.get calls and browser sessions
  metered, requests, sessions,
  \* fetch_products
  fp_step, pw_passes, items_http, items_pw, items_pw2, items,
  \* main
  pc, stored, df_prev, sections, outs, notify,
  \* price fields of a card (parse_http lines 217-227)
  price_text, prices, sale, orig, discount_percent, price_pc,
  \* fetch_page_playwright (lines 410-544): page_idx, position, number of
  \* calls and of browser launches so far, number of open browser sessions,
  \* data, and what the call did: its first evaluation, the evaluations made
  \* after the reload or the page-2 navigation, the reloads, the maneuvers
  \* tried (href_nav: "none", "failed" or "ok")
  render_page, render_pc, calls, launches, browser_open, data, first_data, post_evals,
  reloads, nav_first, click_ok, href_nav,
  \* the wait of the recovery of page index 1 that raised: "none", "scroll"
  \* (lines 509-512) or "retry" (lines 516-520)
  wait_err,
  render_out

parse_vars == <<candidates, parse_page_idx, node_i, by_rank, seen_asin, extras, out, js_out, parse_pc>>

merge_vars == <<list_a, list_b, list_c, merged_flat, merged_left, merged_right, merged_self, merge_pc>>

loop_vars == <<page_idx, url_i, attempt, last_err, backoff, url_errs, slot_log, got, all_items>>

count_vars == <<metered, requests, sessions>>

fp_vars == <<fp_step, pw_passes, items_http, items_pw, items_pw2, items>>

tail_vars == <<stored, df_prev, sections, outs, notify>>

main_vars == <<loop_vars, count_vars, fp_vars, pc, tail_vars>>

price_vars == <<price_text, prices, sale, orig, discount_percent, price_pc>>

\* one call of fetch_page_playwright after the other
render_vars ==
  <<render_page, render_pc, calls, launches, browser_open, data, first_data, post_evals,
    reloads, nav_first, click_ok, href_nav, wait_err, render_out>>

vars == <<parse_vars, merge_vars, main_vars, price_vars, render_vars>>

\* ------------------------------------------------------------------------
\* Helpers
\* ------------------------------------------------------------------------
SeqsUpTo(S, n) == UNION {[1..k -> S] : k \in 0..n}

Product(r, a, t) == [rank |-> r, asin |-> a, title |-> t]

NoProduct == Product(NoRank, EmptyAsin, "")

IsProduct(p) == p # NoProduct

\* the asin sources of a node
Src(own, anc, desc, href) == [own |-> own, anc |-> anc, desc |-> desc, href |-> href]

\* a node whose only asin source is its own data-asin
Own(a) == Src(a, EmptyAsin, EmptyAsin, EmptyAsin)

Node(s, h, t) == [src |-> s, rank_in_page |-> h, title |-> t]

\* extract_asin_from_node (lines 102-118): node, parent, grandparent, then
\* the first descendant with data-asin, then the links
extract_asin_from_node(s) ==
  IF s.own # EmptyAsin THEN s.own
  ELSE IF s.anc # EmptyAsin THEN s.anc
  ELSE IF s.desc # EmptyAsin THEN s.desc
  ELSE s.href

\* extractASIN of the in-page routine (lines 305-318): node, then the first
\* descendant with data-asin, then parent and grandparent, then the links
extractASIN(s) ==
  IF s.own # EmptyAsin THEN s.own
  ELSE IF s.desc # EmptyAsin THEN s.desc
  ELSE IF s.anc # EmptyAsin THEN s.anc
  ELSE s.href

\* ------------------------------------------------------------------------
\* parse_http (src/app.py:161-241)
\* ------------------------------------------------------------------------
\* (variant of HintUsable: the last slot of the page is not accepted as a hint)
HintUsable_Below50(b, h) == h # NoRank /\ h # 0 /\ 1 <= h /\ h < PerPage /\ b[h] = NoProduct

\* line 228: rank_in_page and 1 <= rank_in_page <= 50 and rank_in_page not in by_rank
HintUsable(b, h) == h # NoRank /\ h # 0 /\ 1 <= h /\ h <= PerPage /\ b[h] = NoProduct

\* (variant of Skipped: the seen_asin test is missing)
Skipped_EmptyOnly(seen, asin) == asin = EmptyAsin

\* line 197: if not asin or asin in seen_asin: continue
Skipped(seen, asin) == asin = EmptyAsin \/ asin \in seen

\* lines 211-213: a candidate without title marks its asin as seen
SeenAfterNoTitle(seen, asin) == seen \cup {asin}

\* one iteration of the loop of lines 194-233 on the parse state
\* st = [by_rank, seen_asin, extras]
ParseNode(st, node) ==
  LET asin == extract_asin_from_node(node.src) IN
  IF Skipped(st.seen_asin, asin)
  THEN st
  ELSE IF node.title = ""
  THEN [st EXCEPT !.seen_asin = SeenAfterNoTitle(@, asin)]
  ELSE LET p == Product(NoRank, asin, node.title) IN
       IF HintUsable(st.by_rank, node.rank_in_page)
       THEN [st EXCEPT !.by_rank[node.rank_in_page] = p,
                       !.seen_asin = @ \cup {asin}]
       ELSE [st EXCEPT !.extras = Append(@, p),
                       !.seen_asin = @ \cup {asin}]

\* (variant of GlobalRank: the page offset is missing)
GlobalRank_NoOffset(pidx, r) == r

\* item.rank = page_idx*50 + r  (line 239)
GlobalRank(pidx, r) == pidx * PerPage + r

\* (variant of SlotItem: a slot without bound record stays empty)
SlotItem_BoundOnly(b, ex, pidx, r) ==
  IF b[r] # NoProduct
  THEN [out |-> <<[b[r] EXCEPT !.rank = GlobalRank(pidx, r)]>>, extras |-> ex]
  ELSE [out |-> <<>>, extras |-> ex]

\* (variant of SlotItem: the overflow queue is popped from its end)
SlotItem_Lifo(b, ex, pidx, r) ==
  IF b[r] # NoProduct
  THEN [out |-> <<[b[r] EXCEPT !.rank = GlobalRank(pidx, r)]>>, extras |-> ex]
  ELSE IF ex # <<>>
  THEN [out |-> <<[ex[Len(ex)] EXCEPT !.rank = GlobalRank(pidx, r)]>>,
        extras |-> SubSeq(ex, 1, Len(ex) - 1)]
  ELSE [out |-> <<>>, extras |-> ex]

\* item = by_rank.get(r) or (extras.pop(0) if extras else None)  (line 237)
\* for one slot r: [out, extras]
SlotItem(b, ex, pidx, r) ==
  IF b[r] # NoProduct
  THEN [out |-> <<[b[r] EXCEPT !.rank = GlobalRank(pidx, r)]>>, extras |-> ex]
  ELSE IF ex # <<>>
  THEN [out |-> <<[Head(ex) EXCEPT !.rank = GlobalRank(pidx, r)]>>, extras |-> Tail(ex)]
  ELSE [out |-> <<>>, extras |-> ex]

\* the slot walk of lines 235-241 over the slots lo..hi, in slot order:
\* [out, extras]. (The tests on Len only fix the order of evaluation, so
\* that the recursion stays shallow.)
RECURSIVE SlotWalk(_, _, _, _, _)
SlotWalk(b, ex, pidx, lo, hi) ==
  IF lo > hi THEN [out |-> <<>>, extras |-> ex]
  ELSE IF lo = hi THEN SlotItem(b, ex, pidx, lo)
  ELSE LET mid == (lo + hi) \div 2
           left == SlotWalk(b, ex, pidx, lo, mid)
       IN IF Len(left.out) >= 0
          THEN LET right == SlotWalk(b, left.extras, pidx, mid + 1, hi)
               IN [out |-> left.out \o right.out, extras |-> right.extras]
          ELSE left

NoSlots == [r \in 1..PerPage |-> NoProduct]

EmptyParse == [by_rank |-> NoSlots, seen_asin |-> {}, extras |-> <<>>]

\* for node in candidates[lo..hi]: ...                    (line 194)
RECURSIVE ParseLoop(_, _, _, _)
ParseLoop(st, cands, lo, hi) ==
  IF lo > hi THEN st
  ELSE IF lo = hi THEN ParseNode(st, cands[lo])
  ELSE LET mid == (lo + hi) \div 2
           left == ParseLoop(st, cands, lo, mid)
       IN IF Len(left.extras) >= 0 THEN ParseLoop(left, cands, mid + 1, hi) ELSE left

parse_http(cands, pidx) ==
  LET st == ParseLoop(EmptyParse, cands, 1, Len(cands))
  IN SlotWalk(st.by_rank, st.extras, pidx, 1, PerPage).out

\* ------------------------------------------------------------------------
\* the in-page routine of fetch_page_playwright (src/app.py:288-408)
\* ------------------------------------------------------------------------
\* one iteration of the loop of lines 344-397: as ParseNode, except that a
\* candidate without title leaves `seen` alone (line 359)
JsNode(st, node) ==
  LET asin == extractASIN(node.src) IN
  IF asin = EmptyAsin \/ asin \in st.seen_asin
  THEN st
  ELSE IF node.title = ""
  THEN st
  ELSE LET row == Product(NoRank, asin, node.title) IN
       IF HintUsable(st.by_rank, node.rank_in_page)
       THEN [st EXCEPT !.by_rank[node.rank_in_page] = row,
                       !.seen_asin = @ \cup {asin}]
       ELSE [st EXCEPT !.extras = Append(@, row),
                       !.seen_asin = @ \cup {asin}]

RECURSIVE JsLoop(_, _, _, _)
JsLoop(st, cards, lo, hi) ==
  IF lo > hi THEN st
  ELSE IF lo = hi THEN JsNode(st, cards[lo])
  ELSE LET mid == (lo + hi) \div 2
           left == JsLoop(st, cards, lo, mid)
       IN IF Len(left.extras) >= 0 THEN JsLoop(left, cards, mid + 1, hi) ELSE left

\* lines 399-406 are the slot walk of lines 235-241
js_extract(cards, pageIdx) ==
  LET st == JsLoop(EmptyParse, cards, 1, Len(cards))
  IN SlotWalk(st.by_rank, st.extras, pageIdx, 1, PerPage).out

\* --- inputs of SpecParse ---
\* k leading cards of a well-formed listing: card i carries rank hint i,
\* product off+i and a title
Cards(k, off) == [i \in 1..k |-> Node(Own(off + i), i, "t0")]

LeadCounts == {0, 2, 49}

\* a product of the leading cards, a new product, and a node that has no
\* data-asin itself but sits in a container of product 61 and holds an
\* element of product 60
TailSrcs == {Own(2), Own(60), Src(EmptyAsin, 61, 60, EmptyAsin)}
TailHints == {NoRank, 50, 51}
TailTitles == {"", "t1"}

TailNodes ==
  {Node(Own(EmptyAsin), NoRank, "t1")}
    \cup {Node(s, h, t) : s \in TailSrcs, h \in TailHints, t \in TailTitles}

ParseInputs == {Cards(k, 0) \o t : k \in LeadCounts, t \in SeqsUpTo(TailNodes, MaxCands)}

ParseIdle ==
  /\ candidates = <<>>
  /\ parse_page_idx = 0
  /\ node_i = 1
  /\ by_rank = NoSlots
  /\ seen_asin = {}
  /\ extras = <<>>
  /\ out = <<>>
  /\ js_out = <<>>
  /\ parse_pc = "idle"

ParseStart ==
  /\ candidates \in ParseInputs
  /\ parse_page_idx \in 0..(NumPages - 1)
  /\ node_i = 1
  /\ by_rank = NoSlots
  /\ seen_asin = {}
  /\ extras = <<>>
  /\ out = <<>>
  /\ js_out = <<>>
  /\ parse_pc = "loop"

\* ------------------------------------------------------------------------
\* price fields (src/app.py:63-80, 217-227)
\* ------------------------------------------------------------------------
\* parse_usd_all (lines 63-70) on the amounts USD_RE matches in the text, in
\* text order: the positive ones
parse_usd_all(text) == SelectSeq(text, LAMBDA v : v > 0)

SeqMin(q) == CHOOSE v \in {q[i] : i \in 1..Len(q)} : \A j \in 1..Len(q) : v <= q[j]

SeqMax(q) == CHOOSE v \in {q[i] : i \in 1..Len(q)} : \A j \in 1..Len(q) : v >= q[j]

\* (variant of ResolvePrices: the first amount is the current price and the
\* last the original price)
ResolvePrices_TextOrder(ps) ==
  IF Len(ps) = 1 THEN [sale |-> ps[1], orig |-> NoPrice]
  ELSE IF Len(ps) >= 2
  THEN IF ps[1] = ps[Len(ps)]
       THEN [sale |-> ps[1], orig |-> NoPrice]
       ELSE [sale |-> ps[1], orig |-> ps[Len(ps)]]
  ELSE [sale |-> NoPrice, orig |-> NoPrice]

\* lines 219-223: sale = orig = None; one price: sale; two or more:
\* sale, orig = min, max; if sale == orig: orig = None
ResolvePrices(ps) ==
  IF Len(ps) = 1 THEN [sale |-> ps[1], orig |-> NoPrice]
  ELSE IF Len(ps) >= 2
  THEN IF SeqMin(ps) = SeqMax(ps)
       THEN [sale |-> SeqMin(ps), orig |-> NoPrice]
       ELSE [sale |-> SeqMin(ps), orig |-> SeqMax(ps)]
  ELSE [sale |-> NoPrice, orig |-> NoPrice]

\* a price that is neither None nor 0.0 (`if orig and sale`)
Truthy(v) == v # NoPrice /\ v # 0

\* (variant of discount_floor: the share of the original price that is paid)
discount_floor_Paid(o, s) ==
  IF Truthy(o) /\ Truthy(s) /\ o > 0
  THEN (s * 100) \div o
  ELSE NoDiscount

\* discount_floor (lines 78-80): max(0, floor((1 - sale/orig)*100)). The
\* quotient is taken exactly; on the amounts of Amounts the double
\* arithmetic of line 79 gives the same integer.
discount_floor(o, s) ==
  IF Truthy(o) /\ Truthy(s) /\ o > 0
  THEN LET d == ((o - s) * 100) \div o IN IF d < 0 THEN 0 ELSE d
  ELSE NoDiscount

\* --- inputs of SpecPrice ---
\* $0.00, $19.99, $24.99, $75.00, $100.00
Amounts == {0, 1999, 2499, 7500, 10000}

PriceInputs == SeqsUpTo(Amounts, MaxPrices)

PriceIdle ==
  /\ price_text = <<>>
  /\ prices = <<>>
  /\ sale = NoPrice
  /\ orig = NoPrice
  /\ discount_percent = NoDiscount
  /\ price_pc = "idle"

PriceStart ==
  /\ price_text \in PriceInputs
  /\ prices = <<>>
  /\ sale = NoPrice
  /\ orig = NoPrice
  /\ discount_percent = NoDiscount
  /\ price_pc = "scan"

\* ------------------------------------------------------------------------
\* merge_by_rank (src/app.py:558-567)
\* ------------------------------------------------------------------------
\* (variant of MergePut: a rank that is already filled is kept)
MergePut_FirstWins(b, p) ==
  IF p.rank # NoRank /\ p.rank # 0 /\ p.rank \in 1..TopN /\ b[p.rank] = NoProduct
  THEN [b EXCEPT ![p.rank] = p] ELSE b

\* if p.rank: by_rank[p.rank] = p   (line 562); keys outside 1..100 are
\* never read by the loop of line 564
MergePut(b, p) ==
  IF p.rank # NoRank /\ p.rank # 0 /\ p.rank \in 1..TopN
  THEN [b EXCEPT ![p.rank] = p] ELSE b

\* for p in (L or []): ... over L[lo..hi], in list order    (line 561)
RECURSIVE MergeList(_, _, _, _)
MergeList(b, L, lo, hi) ==
  IF lo > hi THEN b
  ELSE IF lo = hi THEN MergePut(b, L[lo])
  ELSE LET mid == (lo + hi) \div 2
           left == MergeList(b, L, lo, mid)
       IN IF Len(left) >= 0 THEN MergeList(left, L, mid + 1, hi) ELSE left

\* for L in lists: ...                                     (line 560)
RECURSIVE MergeLists(_, _, _)
MergeLists(b, lists, k) ==
  IF k > Len(lists) THEN b
  ELSE MergeLists(MergeList(b, lists[k], 1, Len(lists[k])), lists, k + 1)

\* (variant of MergeEmit: the walk stops before rank 100)
MergeEmit_Below100(b) ==
  SelectSeq([r \in 1..(TopN - 1) |-> IF b[r] = NoProduct THEN NoProduct
                                      ELSE [b[r] EXCEPT !.rank = r]],
            IsProduct)

\* for r in range(1, 101): if r in by_rank: p = by_rank[r]; p.rank = r;
\* out.append(p)                                           (lines 564-566)
MergeEmit(b) ==
  SelectSeq([r \in 1..TopN |-> IF b[r] = NoProduct THEN NoProduct
                                ELSE [b[r] EXCEPT !.rank = r]],
            IsProduct)

NoRanks == [r \in 1..TopN |-> NoProduct]

merge_by_rank(lists) == MergeEmit(MergeLists(NoRanks, lists, 1))

\* --- inputs of SpecMerge ---
MergeRecords ==
  { Product(1, 1, "t1"), Product(1, 2, "t1"), Product(100, 1, "t1"),
    Product(101, 1, "t1") }

MergeInputs == SeqsUpTo(MergeRecords, MaxList)

MergeIdle ==
  /\ list_a = <<>>
  /\ list_b = <<>>
  /\ list_c = <<>>
  /\ merged_flat = <<>>
  /\ merged_left = <<>>
  /\ merged_right = <<>>
  /\ merged_self = <<>>
  /\ merge_pc = "idle"

MergeStart ==
  /\ list_a \in MergeInputs
  /\ list_b \in MergeInputs
  /\ list_c \in MergeInputs
  /\ merged_flat = <<>>
  /\ merged_left = <<>>
  /\ merged_right = <<>>
  /\ merged_self = <<>>
  /\ merge_pc = "flat"

\* ------------------------------------------------------------------------
\* fetch_products and main (src/app.py:244-276, 546-590, 639-644, 783-816)
\* ------------------------------------------------------------------------
\* a listing page as the server sends it: n cards, card i with rank hint i
\* and product page_idx*50 + i + shift
Listing(p, n, shift) == Cards(n, p * PerPage + shift)

HttpYields == {0, 38, 45, 48, 50}

\* the yields of a metered run: a refused page (below 48), an accepted page
\* short of 50 and a full page, which give every total fetch_products tests
\* (below 96, 96 to 99, 100)
BudgetYields == {0, 48, 50}

\* the yields of its rendered pages: a refused page and a full page
BudgetRenderYields == {0, 50}

HttpPages(p) ==
  IF metered THEN {Listing(p, n, 0) : n \in BudgetYields}
  ELSE {Listing(p, n, 0) : n \in HttpYields}

PwPages(p) ==
  IF metered THEN {Listing(p, n, 0) : n \in BudgetRenderYields}
  ELSE {Listing(p, n, 0) : n \in {0, 45, 50}} \cup {Listing(p, 50, 1)}

\* a transport operation is counted in a metered run
Counted(c) == IF metered THEN c + 1 ELSE c

\* lines 532-544: the rows of page.evaluate(js, page_idx) as Products
fetch_page_playwright(dom, p) == js_extract(dom, p)

\* line 573: items = items_http if len(items_http) >= 96 else []
AcceptHttp(its) == IF Len(its) >= HttpAccept THEN its ELSE <<>>

\* line 579: if len(items) < 96
NeedFallback(its) == Len(its) < FallbackBelow

\* (variant of NeedRetry: the retry uses the threshold of line 579)
NeedRetry_Below96(its) == Len(its) < FallbackBelow

\* line 584: if len(items) < 100
NeedRetry(its) == Len(its) < RetryBelow

\* (variant of MergeOver: the earlier result is merged over the pass)
MergeOver_EarlierWins(earlier, pass) == merge_by_rank(<<pass, earlier>>)

\* items = merge_by_rank(items, items_pw)  (lines 581 and 588)
MergeOver(earlier, pass) == merge_by_rank(<<earlier, pass>>)

\* (variant of UrlAccepted: 45 records are enough)
UrlAccepted_45(g) == Len(g) >= 45

\* line 271 / 552: if len(got) >= 48: break
UrlAccepted(g) == Len(g) >= UrlAccept

\* a snapshot of an earlier day as drive_download_csv returns it; <<>> is
\* None (no folder, Drive error caught at line 803, or file not found)
Snapshot(n, shift) == [i \in 1..n |-> Product(i, i + shift, "t0")]

PrevChoices == {<<>>, Snapshot(100, 0), Snapshot(45, 1)}

Keys(df) == {df[i].asin : i \in 1..Len(df)}

KeyCount(df, k) == Cardinality({i \in 1..Len(df) : df[i].asin = k})

TopRows(df, n) == SelectSeq(df, LAMBDA p : p.rank <= n)

\* build_sections (lines 655-767) raises
\*   TypeError at 709/720 when a key common to both days is duplicated in
\*     either index (df.loc[k, "rank"] is then a Series),
\*   TypeError at 733 when a newcomer key is duplicated within today's top 30,
\*   KeyError at 742 (df_prev is indexed by row number, not by key) as soon
\*     as out_all is not empty;
\* it returns early at 663 (today empty) and 690 (no previous day)
\* out_all = set(df_p.index) - set(df_t.index)  (line 704)
OutAll(today, prev) == Keys(TopRows(prev, 100)) \ Keys(TopRows(today, 100))

BuildSectionsRaises(today, prev) ==
  /\ today # <<>>
  /\ prev # <<>>
  /\ \/ \E k \in Keys(today) \cap Keys(prev) : KeyCount(today, k) > 1 \/ KeyCount(prev, k) > 1
     \/ \E k \in Keys(TopRows(today, 30)) \ Keys(TopRows(prev, 30)) :
           KeyCount(TopRows(today, 30), k) > 1
     \/ OutAll(today, prev) # {}

\* S["outs"] when build_sections returns: [] at the early returns of lines
\* 663 and 690, and [] at line 747, which is reached only when the loop of
\* line 741 has no key to visit (its first statement raises)
SectionOuts(today, prev) == <<>>

\* slack_post (lines 639-644): no webhook configured, a 2xx response, a
\* response >= 300 (printed), or requests raising on timeout / connection
SlackOutcomes == {"nourl", "ok", "non2xx", "timeout", "connerr"}

SlackRaises(o) == o \in {"timeout", "connerr"}

MainIdle ==
  /\ page_idx = 0 /\ url_i = 0 /\ attempt = 0 /\ got = <<>> /\ all_items = <<>>
  /\ last_err = "none" /\ backoff = 0 /\ url_errs = 0 /\ slot_log = <<>>
  /\ metered = FALSE /\ requests = 0 /\ sessions = 0
  /\ fp_step = 0 /\ pw_passes = 0
  /\ items_http = <<>> /\ items_pw = <<>> /\ items_pw2 = <<>> /\ items = <<>>
  /\ pc = "idle"
  /\ stored = FALSE /\ df_prev = <<>> /\ notify = "none"
  /\ sections = "none" /\ outs = <<>>

\* main() up to the call of fetch_products, which calls fetch_by_http
FetchStart(m) ==
  /\ page_idx = 0 /\ url_i = 0 /\ attempt = 0 /\ got = <<>> /\ all_items = <<>>
  /\ last_err = "none" /\ backoff = 0 /\ url_errs = 0 /\ slot_log = <<>>
  /\ metered = m /\ requests = 0 /\ sessions = 0
  /\ fp_step = 1 /\ pw_passes = 0
  /\ items_http = <<>> /\ items_pw = <<>> /\ items_pw2 = <<>> /\ items = <<>>
  /\ pc = "http"
  /\ stored = FALSE /\ df_prev = <<>> /\ notify = "none"
  /\ sections = "none" /\ outs = <<>>

MainStart == FetchStart(FALSE)

\* the same run with its transport operations counted
BudgetStart == FetchStart(TRUE)

\* --- SpecParse: parse_http step by step, then the in-page routine on the
\* same candidates ---
\* for node in candidates: ... (lines 194-233)
ParseCandidate ==
  /\ parse_pc = "loop"
  /\ node_i <= Len(candidates)
  /\ LET st == ParseNode([by_rank |-> by_rank, seen_asin |-> seen_asin, extras |-> extras],
                         candidates[node_i])
     IN /\ by_rank' = st.by_rank
        /\ seen_asin' = st.seen_asin
        /\ extras' = st.extras
  /\ node_i' = node_i + 1
  /\ UNCHANGED <<candidates, parse_page_idx, out, js_out, parse_pc>>
  /\ UNCHANGED <<merge_vars, main_vars, price_vars, render_vars>>

\* for r in range(1, 51): ... return out (lines 235-241)
ParseEmit ==
  /\ parse_pc = "loop"
  /\ node_i > Len(candidates)
  /\ LET w == SlotWalk(by_rank, extras, parse_page_idx, 1, PerPage)
     IN /\ out' = w.out
        /\ extras' = w.extras
  /\ parse_pc' = "js"
  /\ UNCHANGED <<candidates, parse_page_idx, node_i, by_rank, seen_asin, js_out>>
  /\ UNCHANGED <<merge_vars, main_vars, price_vars, render_vars>>

\* the in-page routine evaluated on the same cards (lines 288-408)
ParseJs ==
  /\ parse_pc = "js"
  /\ js_out' = js_extract(candidates, parse_page_idx)
  /\ parse_pc' = "done"
  /\ UNCHANGED <<candidates, parse_page_idx, node_i, by_rank, seen_asin, extras, out>>
  /\ UNCHANGED <<merge_vars, main_vars, price_vars, render_vars>>

\* --- SpecMerge: the three groupings of a merge of A, B, C, and A merged
\* with itself ---
\* merge_by_rank(A, B, C)
MergeFlat ==
  /\ merge_pc = "flat"
  /\ merged_flat' = merge_by_rank(<<list_a, list_b, list_c>>)
  /\ merge_pc' = "left"
  /\ UNCHANGED <<list_a, list_b, list_c, merged_left, merged_right, merged_self>>
  /\ UNCHANGED <<parse_vars, main_vars, price_vars, render_vars>>

\* merge_by_rank(merge_by_rank(A, B), C)
MergeLeft ==
  /\ merge_pc = "left"
  /\ merged_left' = merge_by_rank(<<merge_by_rank(<<list_a, list_b>>), list_c>>)
  /\ merge_pc' = "right"
  /\ UNCHANGED <<list_a, list_b, list_c, merged_flat, merged_right, merged_self>>
  /\ UNCHANGED <<parse_vars, main_vars, price_vars, render_vars>>

\* merge_by_rank(A, merge_by_rank(B, C))
MergeRight ==
  /\ merge_pc = "right"
  /\ merged_right' = merge_by_rank(<<list_a, merge_by_rank(<<list_b, list_c>>)>>)
  /\ merge_pc' = "self"
  /\ UNCHANGED <<list_a, list_b, list_c, merged_flat, merged_left, merged_self>>
  /\ UNCHANGED <<parse_vars, main_vars, price_vars, render_vars>>

\* merge_by_rank(A, A)
MergeSelf ==
  /\ merge_pc = "self"
  /\ merged_self' = merge_by_rank(<<list_a, list_a>>)
  /\ merge_pc' = "done"
  /\ UNCHANGED <<list_a, list_b, list_c, merged_flat, merged_left, merged_right>>
  /\ UNCHANGED <<parse_vars, main_vars, price_vars, render_vars>>

\* --- SpecPrice: the price fields of one card ---
\* prices = parse_usd_all(block)  (line 218)
PriceScan ==
  /\ price_pc = "scan"
  /\ prices' = parse_usd_all(price_text)
  /\ price_pc' = "resolve"
  /\ UNCHANGED <<price_text, sale, orig, discount_percent>>
  /\ UNCHANGED <<parse_vars, merge_vars, main_vars, render_vars>>

\* lines 219-223
PriceResolve ==
  /\ price_pc = "resolve"
  /\ sale' = ResolvePrices(prices).sale
  /\ orig' = ResolvePrices(prices).orig
  /\ price_pc' = "discount"
  /\ UNCHANGED <<price_text, prices, discount_percent>>
  /\ UNCHANGED <<parse_vars, merge_vars, main_vars, render_vars>>

\* discount_percent=discount_floor(orig, sale)  (line 226)
PriceDiscount ==
  /\ price_pc = "discount"
  /\ discount_percent' = discount_floor(orig, sale)
  /\ price_pc' = "done"
  /\ UNCHANGED <<price_text, prices, sale, orig>>
  /\ UNCHANGED <<parse_vars, merge_vars, main_vars, render_vars>>

\* ------------------------------------------------------------------------
\* fetch_page_playwright (src/app.py:410-544)
\* ------------------------------------------------------------------------
\* what page.evaluate(js, page_idx) can return on page p
RenderDoms(p) == {Listing(p, n, 0) : n \in {0, 44, 45, 50}}

EvalRows(p) == {js_extract(dom, p) : dom \in RenderDoms(p)}

\* (variant of NeedRecovery: the recovery is always tried)
NeedRecovery_Always(d) == TRUE

\* not isinstance(data, list) or len(data) < 45  (lines 449 and 463)
NeedRecovery(d) == Len(d) < RecoverBelow

\* (variant of AfterEvalFailed: the earlier data are kept)
AfterEvalFailed_Keep(d) == d

\* except Exception: data = []  (lines 444-446 and 522-524)
AfterEvalFailed(d) == <<>>

\* ctx.close(); browser.close()  (line 530)
browser_close(open) == 0

\* (variant of with_exit: leaving the block stops nothing)
with_exit_NoStop(open) == open

\* leaving the block of `with sync_playwright() as p` (line 410), normally
\* or by an exception, stops Playwright and the browser it launched
with_exit(open) == 0

RenderIdle ==
  /\ render_page = 0 /\ render_pc = "idle" /\ calls = 0 /\ launches = 0
  /\ browser_open = 0 /\ data = <<>> /\ first_data = <<>> /\ post_evals = <<>>
  /\ reloads = 0 /\ nav_first = FALSE /\ click_ok = FALSE /\ href_nav = "none"
  /\ wait_err = "none"
  /\ render_out = <<>>

RenderStart ==
  /\ render_page \in 0..(NumPages - 1) /\ render_pc = "launch" /\ calls = 1 /\ launches = 0
  /\ browser_open = 0 /\ data = <<>> /\ first_data = <<>> /\ post_evals = <<>>
  /\ reloads = 0 /\ nav_first = FALSE /\ click_ok = FALSE /\ href_nav = "none"
  /\ wait_err = "none"
  /\ render_out = <<>>

\* what a step of the call leaves alone, apart from its position and data
RenderKeep == UNCHANGED <<render_page, calls, launches, browser_open, first_data, post_evals,
                          reloads, nav_first, click_ok, href_nav, wait_err, render_out>>

RenderOthers == UNCHANGED <<parse_vars, merge_vars, main_vars, price_vars>>

\* p.chromium.launch, new_context, new_page (lines 411-423)
RenderLaunch ==
  /\ render_pc = "launch"
  /\ browser_open' = browser_open + 1
  /\ launches' = launches + 1
  /\ render_pc' = "goto"
  /\ UNCHANGED <<render_page, calls, data, first_data, post_evals, reloads, nav_first,
                 click_ok, href_nav, wait_err, render_out>>
  /\ RenderOthers

\* the launch raises: the call raises without a session
RenderLaunchFail ==
  /\ render_pc = "launch"
  /\ render_pc' = "raised"
  /\ browser_open' = with_exit(browser_open)
  /\ UNCHANGED <<render_page, calls, launches, data, first_data, post_evals, reloads,
                 nav_first, click_ok, href_nav, wait_err, render_out>>
  /\ RenderOthers

\* page.goto and the scroll (lines 426-439)
RenderGoto ==
  /\ render_pc = "goto"
  /\ render_pc' = "eval1"
  /\ UNCHANGED data
  /\ RenderKeep
  /\ RenderOthers

\* page.goto (426) or a wait of the scroll (439) raises: the exception
\* leaves the with block and the call
RenderGotoRaise ==
  /\ render_pc = "goto"
  /\ render_pc' = "raised"
  /\ browser_open' = with_exit(browser_open)
  /\ UNCHANGED <<render_page, calls, launches, data, first_data, post_evals, reloads,
                 nav_first, click_ok, href_nav, wait_err, render_out>>
  /\ RenderOthers

\* where the call goes on after the first evaluation (lines 449 and 463)
AfterFirstEval(d) ==
  IF NeedRecovery(d) THEN (IF render_page = 0 THEN "reload" ELSE "nav_first") ELSE "close"

\* the first evaluation (lines 442-446)
RenderEval1 ==
  /\ render_pc = "eval1"
  /\ \/ \E rows \in EvalRows(render_page) : data' = rows
     \/ data' = AfterEvalFailed(data)
  /\ first_data' = data'
  /\ render_pc' = AfterFirstEval(data')
  /\ UNCHANGED <<render_page, calls, launches, browser_open, post_evals, reloads, nav_first,
                 click_ok, href_nav, wait_err, render_out>>
  /\ RenderOthers

\* page index 0: page.reload and the scroll (lines 451-457); an exception is
\* caught at line 459 and leaves data alone
RenderReload ==
  /\ render_pc = "reload"
  /\ reloads' = reloads + 1
  /\ render_pc' \in {"reload_eval", "close"}
  /\ UNCHANGED <<render_page, calls, launches, browser_open, data, first_data, post_evals,
                 nav_first, click_ok, href_nav, wait_err, render_out>>
  /\ RenderOthers

\* data = page.evaluate(js, page_idx) after the reload (line 458); an
\* exception is caught at line 459 and leaves data alone
RenderReloadEval ==
  /\ render_pc = "reload_eval"
  /\ \/ \E rows \in EvalRows(render_page) :
          /\ data' = rows
          /\ post_evals' = Append(post_evals, [ok |-> TRUE, rows |-> rows])
     \/ /\ data' = data
        /\ post_evals' = Append(post_evals, [ok |-> FALSE, rows |-> <<>>])
  /\ render_pc' = "close"
  /\ UNCHANGED <<render_page, calls, launches, browser_open, first_data, reloads, nav_first,
                 click_ok, href_nav, wait_err, render_out>>
  /\ RenderOthers

\* page index 1: page.goto(first page), banner, scroll (lines 466-475); an
\* exception is caught at line 527 and leaves data alone
RenderNavFirst ==
  /\ render_pc = "nav_first"
  /\ nav_first' = TRUE
  /\ render_pc' \in {"click", "close"}
  /\ UNCHANGED <<render_page, calls, launches, browser_open, data, first_data, post_evals,
                 reloads, click_ok, href_nav, wait_err, render_out>>
  /\ RenderOthers

\* the loop over the next-page selectors (lines 477-486): a click succeeds
\* (clicked = True; break) or every click raises
RenderClick ==
  /\ render_pc = "click"
  /\ \/ click_ok' = TRUE /\ render_pc' = "arrive"
     \/ click_ok' = FALSE /\ render_pc' = "href"
  /\ UNCHANGED <<render_page, calls, launches, browser_open, data, first_data, post_evals,
                 reloads, nav_first, href_nav, wait_err, render_out>>
  /\ RenderOthers

\* if not clicked: the href of the next page is looked up and navigated to
\* (lines 488-506). found: the navigation succeeded (clicked = True); else
\* no href was found, or the lookup or page.goto raised (caught at 505)
RenderHref ==
  /\ render_pc = "href"
  /\ \E found \in BOOLEAN :
       /\ href_nav' = (IF found THEN "ok" ELSE "failed")
       /\ render_pc' = (IF found THEN "arrive" ELSE "close")
  /\ UNCHANGED <<render_page, calls, launches, browser_open, data, first_data, post_evals,
                 reloads, nav_first, click_ok, wait_err, render_out>>
  /\ RenderOthers

\* if clicked: the scroll of lines 509-512; an exception of a wait is
\* caught at line 527 and leaves data alone
RenderArrive ==
  /\ render_pc = "arrive"
  /\ \/ render_pc' = "eval_a" /\ wait_err' = wait_err
     \/ render_pc' = "close" /\ wait_err' = "scroll"
  /\ UNCHANGED <<render_page, calls, launches, browser_open, data, first_data, post_evals,
                 reloads, nav_first, click_ok, href_nav, render_out>>
  /\ RenderOthers

\* data = page.evaluate(js, page_idx) (line 514), and line 515
RenderEvalA ==
  /\ render_pc = "eval_a"
  /\ \/ \E rows \in EvalRows(render_page) :
          /\ data' = rows
          /\ post_evals' = Append(post_evals, [ok |-> TRUE, rows |-> rows])
          /\ render_pc' = (IF Len(rows) < RecoverBelow THEN "eval_b" ELSE "close")
     \/ /\ data' = AfterEvalFailed(data)
        /\ post_evals' = Append(post_evals, [ok |-> FALSE, rows |-> <<>>])
        /\ render_pc' = "close"
  /\ UNCHANGED <<render_page, calls, launches, browser_open, first_data, reloads, nav_first,
                 click_ok, href_nav, wait_err, render_out>>
  /\ RenderOthers

\* the short wait, the rescroll and the second evaluation (lines 516-521);
\* an exception of the evaluation, or of a wait before it, is caught at
\* line 522
RenderEvalB ==
  /\ render_pc = "eval_b"
  /\ \/ \E rows \in EvalRows(render_page) :
          /\ data' = rows
          /\ post_evals' = Append(post_evals, [ok |-> TRUE, rows |-> rows])
          /\ wait_err' = wait_err
     \/ /\ data' = AfterEvalFailed(data)
        /\ post_evals' = Append(post_evals, [ok |-> FALSE, rows |-> <<>>])
        /\ wait_err' = wait_err
     \/ /\ data' = AfterEvalFailed(data)
        /\ post_evals' = post_evals
        /\ wait_err' = "retry"
  /\ render_pc' = "close"
  /\ UNCHANGED <<render_page, calls, launches, browser_open, first_data, reloads, nav_first,
                 click_ok, href_nav, render_out>>
  /\ RenderOthers

\* ctx.close(); browser.close(), the end of the with block, and the
\* conversion of data to Products (lines 530-544)
RenderClose ==
  /\ render_pc = "close"
  /\ browser_open' = with_exit(browser_close(browser_open))
  /\ render_out' = data
  /\ render_pc' = "returned"
  /\ UNCHANGED <<render_page, calls, launches, data, first_data, post_evals, reloads,
                 nav_first, click_ok, href_nav, wait_err>>
  /\ RenderOthers

\* fetch_by_playwright calls fetch_page_playwright again (line 551)
RenderNext ==
  /\ render_pc = "returned"
  /\ calls < MaxCalls
  /\ calls' = calls + 1
  /\ render_page' \in 0..(NumPages - 1)
  /\ render_pc' = "launch"
  /\ data' = <<>> /\ first_data' = <<>> /\ post_evals' = <<>>
  /\ reloads' = 0 /\ nav_first' = FALSE /\ click_ok' = FALSE /\ href_nav' = "none"
  /\ wait_err' = "none"
  /\ render_out' = <<>>
  /\ UNCHANGED <<launches, browser_open>>
  /\ RenderOthers

\* --- Spec: main ---
\* the rest of one iteration of `for u in urls` in fetch_by_http (266-275)
\* and fetch_by_playwright (548-554): brk says whether the loop breaks,
\* loop is the strategy's fetch position, ret is where the caller continues.
\* url_errs counts the candidates of the slot that raised; slot_log lists
\* what the candidates of the slot did so far, in order: the number of
\* records returned, or UrlRaised.
LoopAdvance(brk, loop, ret) ==
  /\ attempt' = 0
  /\ UNCHANGED <<slot_log, count_vars>>
  /\ last_err' = "none"
  /\ backoff' = 0
  /\ IF brk \/ url_i = NumUrls - 1
     THEN /\ all_items' = all_items \o got
          /\ got' = <<>>
          /\ url_i' = 0
          /\ url_errs' = 0
          /\ IF page_idx = NumPages - 1
             THEN page_idx' = 0 /\ pc' = ret
             ELSE page_idx' = page_idx + 1 /\ pc' = loop
     ELSE /\ url_i' = url_i + 1
          /\ pc' = loop
          /\ UNCHANGED <<all_items, page_idx, got, url_errs>>

\* (variant of MoreAttempts: one more attempt)
MoreAttempts_Fourth(a) == a < MaxAttempts

\* for attempt in range(3)  (line 253): another attempt follows attempt a
MoreAttempts(a) == a + 1 < MaxAttempts

\* slot_log after the candidate URL did e
Logged(e) == IF url_i = 0 THEN <<e>> ELSE Append(slot_log, e)

\* (variant of GotAfter: the larger result is kept)
GotAfter_KeepLarger(prev, ret) == IF Len(ret) >= Len(prev) THEN ret ELSE prev

\* got = http_fetch_page(u, page_idx)  (line 270; 551 in fetch_by_playwright)
GotAfter(prev, ret) == ret

\* http_fetch_page: s.get succeeds with a 2xx page (lines 255-258), whose
\* parse is returned and assigned to got (line 270)
HttpOk ==
  /\ pc = "http"
  /\ \E html \in HttpPages(page_idx) :
       LET ret == parse_http(html, page_idx)
       IN got' = GotAfter(got, ret) /\ slot_log' = Logged(Len(ret))
  /\ requests' = Counted(requests)
  /\ pc' = "http_got"
  /\ UNCHANGED <<page_idx, url_i, attempt, last_err, backoff, url_errs, all_items, metered, sessions>>
  /\ UNCHANGED <<fp_vars, tail_vars, parse_vars, merge_vars, price_vars, render_vars>>

\* if len(got) >= 48: break, else the next candidate (lines 271, 274-275)
HttpGot ==
  /\ pc = "http_got"
  /\ LoopAdvance(UrlAccepted(got), "http", "fp_step1")
  /\ UNCHANGED <<fp_vars, tail_vars, parse_vars, merge_vars, price_vars, render_vars>>

\* (variant of Backoff: the same pause after every failure)
Backoff_Constant(a) == 12

\* time.sleep(1.2*(attempt+1)) (line 260), in tenths of a second
Backoff(a) == 12 * (a + 1)

\* a 429 response (line 256) or another failure of s.get / raise_for_status
FailKinds == {"429", "timeout"}

\* http_fetch_page: the attempt fails (lines 256-260); after the third
\* failure last_err is raised (line 261)
HttpFail ==
  /\ pc = "http"
  /\ \E e \in FailKinds : last_err' = e
  /\ backoff' = Backoff(attempt)
  /\ requests' = Counted(requests)
  /\ IF MoreAttempts(attempt)
     THEN attempt' = attempt + 1 /\ UNCHANGED <<pc, url_errs, slot_log>>
     ELSE /\ attempt' = attempt /\ pc' = "http_raise" /\ url_errs' = url_errs + 1
          /\ slot_log' = Logged(UrlRaised)
  /\ UNCHANGED <<page_idx, url_i, got, all_items, metered, sessions>>
  /\ UNCHANGED <<fp_vars, tail_vars, parse_vars, merge_vars, price_vars, render_vars>>

\* except Exception: continue (lines 272-273); got keeps its value
HttpSwallow ==
  /\ pc = "http_raise"
  /\ LoopAdvance(FALSE, "http", "fp_step1")
  /\ UNCHANGED <<fp_vars, tail_vars, parse_vars, merge_vars, price_vars, render_vars>>

\* fetch_products continues with a rendering pass (580 or 587)
StartPass(step) ==
  /\ pc' = "pw"
  /\ fp_step' = step
  /\ pw_passes' = pw_passes + 1
  /\ all_items' = <<>>

\* return merge_by_rank(items) (590), assigned to items of main (789)
Return(its) ==
  /\ items' = merge_by_rank(<<its>>)
  /\ pc' = "store"
  /\ fp_step' = 0
  /\ all_items' = <<>>
  /\ UNCHANGED pw_passes

\* fetch_products after fetch_by_http returned (lines 572-584)
FpStep1 ==
  /\ pc = "fp_step1"
  /\ items_http' = all_items
  /\ LET its == AcceptHttp(all_items)
     IN IF NeedFallback(its) THEN StartPass(2) /\ items' = its
        ELSE IF NeedRetry(its) THEN StartPass(3) /\ items' = its
        ELSE Return(its)
  /\ slot_log' = <<>>
  /\ UNCHANGED <<page_idx, url_i, attempt, last_err, backoff, url_errs, got, items_pw, items_pw2>>
  /\ UNCHANGED count_vars
  /\ UNCHANGED <<tail_vars, parse_vars, merge_vars, price_vars, render_vars>>

\* fetch_page_playwright returns the rows of its last evaluation, which
\* are assigned to got (line 551)
PwOk ==
  /\ pc = "pw"
  /\ \E dom \in PwPages(page_idx) :
       LET ret == fetch_page_playwright(dom, page_idx)
       IN got' = GotAfter(got, ret) /\ slot_log' = Logged(Len(ret))
  /\ sessions' = Counted(sessions)
  /\ pc' = "pw_got"
  /\ UNCHANGED <<page_idx, url_i, attempt, last_err, backoff, url_errs, all_items, metered, requests>>
  /\ UNCHANGED <<fp_vars, tail_vars, parse_vars, merge_vars, price_vars, render_vars>>

\* if len(got) >= 48: break, else the next candidate (lines 552-554)
PwGot ==
  /\ pc = "pw_got"
  /\ LoopAdvance(UrlAccepted(got), "pw", IF fp_step = 2 THEN "fp_step2" ELSE "fp_step3")
  /\ UNCHANGED <<fp_vars, tail_vars, parse_vars, merge_vars, price_vars, render_vars>>

\* fetch_page_playwright raises (browser launch at 411, page.goto at 426 or
\* a scroll wait at 439, outside any try); launched says whether the
\* browser session had been opened
PwRaise ==
  /\ pc = "pw"
  /\ pc' = "pw_raise"
  /\ url_errs' = url_errs + 1
  /\ slot_log' = Logged(UrlRaised)
  /\ \E launched \in BOOLEAN : sessions' = (IF launched THEN Counted(sessions) ELSE sessions)
  /\ UNCHANGED <<page_idx, url_i, attempt, last_err, backoff, got, all_items, metered, requests>>
  /\ UNCHANGED <<fp_vars, tail_vars, parse_vars, merge_vars, price_vars, render_vars>>

\* the call of line 551 is in no try, nor are those of lines 580 and 587
\* and of line 789: the exception reaches the handler of line 812
PwPropagate ==
  /\ pc = "pw_raise"
  /\ pc' = "handler"
  /\ UNCHANGED <<loop_vars, count_vars, fp_vars, tail_vars, parse_vars, merge_vars, price_vars, render_vars>>

\* fetch_products after the rendering pass of step 2 (lines 580-584)
FpStep2 ==
  /\ pc = "fp_step2"
  /\ items_pw' = all_items
  /\ LET its == MergeOver(items, all_items)
     IN IF NeedRetry(its) THEN StartPass(3) /\ items' = its
        ELSE Return(its)
  /\ slot_log' = <<>>
  /\ UNCHANGED <<page_idx, url_i, attempt, last_err, backoff, url_errs, got, items_http, items_pw2>>
  /\ UNCHANGED count_vars
  /\ UNCHANGED <<tail_vars, parse_vars, merge_vars, price_vars, render_vars>>

\* fetch_products after the rendering pass of step 3 (lines 587-590)
FpStep3 ==
  /\ pc = "fp_step3"
  /\ items_pw2' = all_items
  /\ Return(MergeOver(items, all_items))
  /\ slot_log' = <<>>
  /\ UNCHANGED <<page_idx, url_i, attempt, last_err, backoff, url_errs, got, items_http, items_pw>>
  /\ UNCHANGED count_vars
  /\ UNCHANGED <<tail_vars, parse_vars, merge_vars, price_vars, render_vars>>

\* to_dataframe and df_today.to_csv (lines 792-795)
MainStore ==
  /\ pc = "store"
  /\ stored' = TRUE
  /\ pc' = "drive"
  /\ UNCHANGED <<loop_vars, count_vars, fp_vars, df_prev, sections, outs, notify, parse_vars, merge_vars, price_vars, render_vars>>

\* the Drive block (lines 797-804): df_prev is the previous day's frame or None
MainDrive ==
  /\ pc = "drive"
  /\ df_prev' \in PrevChoices
  /\ pc' = "sections"
  /\ UNCHANGED <<loop_vars, count_vars, fp_vars, stored, sections, outs, notify, parse_vars, merge_vars, price_vars, render_vars>>

\* S = build_sections(df_today, df_prev) (line 806)
MainSections ==
  /\ pc = "sections"
  /\ IF BuildSectionsRaises(items, df_prev)
     THEN pc' = "handler" /\ sections' = "raised" /\ outs' = outs
     ELSE pc' = "slack" /\ sections' = "returned" /\ outs' = SectionOuts(items, df_prev)
  /\ UNCHANGED <<loop_vars, count_vars, fp_vars, stored, df_prev, notify, parse_vars, merge_vars, price_vars, render_vars>>

\* slack_post(build_slack_message(...)) (line 807)
MainSlack ==
  /\ pc = "slack"
  /\ \E o \in SlackOutcomes :
       /\ notify' = o
       /\ pc' = IF SlackRaises(o) THEN "handler" ELSE "done"
  /\ UNCHANGED <<loop_vars, count_vars, fp_vars, stored, df_prev, sections, outs, parse_vars, merge_vars, price_vars, render_vars>>

\* except Exception: ... slack_post inside try/except: pass; raise (812-816)
Handler ==
  /\ pc = "handler"
  /\ pc' = "failed"
  /\ UNCHANGED <<loop_vars, count_vars, fp_vars, tail_vars, parse_vars, merge_vars, price_vars, render_vars>>

\* ------------------------------------------------------------------------
\* Specifications
\* ------------------------------------------------------------------------
ParseInit == ParseStart /\ MergeIdle /\ MainIdle /\ PriceIdle /\ RenderIdle

ParseNext == ParseCandidate \/ ParseEmit \/ ParseJs

SpecParse == ParseInit /\ [][ParseNext]_vars

MergeInit == MergeStart /\ ParseIdle /\ MainIdle /\ PriceIdle /\ RenderIdle

MergeNext == MergeFlat \/ MergeLeft \/ MergeRight \/ MergeSelf

SpecMerge == MergeInit /\ [][MergeNext]_vars

PriceInit == PriceStart /\ ParseIdle /\ MergeIdle /\ MainIdle /\ RenderIdle

PriceNext == PriceScan \/ PriceResolve \/ PriceDiscount

SpecPrice == PriceInit /\ [][PriceNext]_vars

RenderInit == RenderStart /\ ParseIdle /\ MergeIdle /\ MainIdle /\ PriceIdle

RenderNext1 ==
  \/ RenderLaunch \/ RenderLaunchFail \/ RenderGoto \/ RenderGotoRaise \/ RenderEval1
  \/ RenderReload \/ RenderReloadEval

RenderNext2 ==
  \/ RenderNavFirst \/ RenderClick \/ RenderHref \/ RenderArrive
  \/ RenderEvalA \/ RenderEvalB \/ RenderClose \/ RenderNext

SpecRender == RenderInit /\ [][RenderNext1 \/ RenderNext2]_vars

Init == MainStart /\ ParseIdle /\ MergeIdle /\ PriceIdle /\ RenderIdle

Next ==
  \/ HttpOk \/ HttpGot \/ HttpFail \/ HttpSwallow \/ FpStep1
  \/ PwOk \/ PwGot \/ PwRaise \/ PwPropagate \/ FpStep2 \/ FpStep3
  \/ MainStore \/ MainDrive \/ MainSections \/ MainSlack \/ Handler

Spec == Init /\ [][Next]_vars

\* the metered run of fetch_products
BudgetInit == BudgetStart /\ ParseIdle /\ MergeIdle /\ PriceIdle /\ RenderIdle

\* the steps of fetch_products (lines 569-590) and of what it calls
FetchNext ==
  \/ HttpOk \/ HttpGot \/ HttpFail \/ HttpSwallow
  \/ FpStep1 \/ FpStep2 \/ FpStep3
  \/ PwOk \/ PwGot \/ PwRaise \/ PwPropagate

SpecBudget == BudgetInit /\ [][FetchNext]_vars

\* ------------------------------------------------------------------------
\* Properties
\* ------------------------------------------------------------------------
\* the record of list L at rank r (the last one, if several), or NoProduct
At(L, r) ==
  LET I == {i \in 1..Len(L) : L[i].rank = r}
  IN IF I = {} THEN NoProduct ELSE L[CHOOSE i \in I : \A j \in I : j <= i]

Ranks(L) == {L[i].rank : i \in 1..Len(L)}

\* number of records of L in the slot range of page p
Yield(L, p) == Cardinality({i \in 1..Len(L) : L[i].rank \in (p * 50 + 1)..(p * 50 + 50)})

StrictlyIncreasing(L) == \A i \in 1..(Len(L) - 1) : L[i].rank < L[i + 1].rank

\* fetch_products has returned its list to main (line 789)
FetchReturned == pc = "store" \/ stored

\* an exception left fetch_products
FetchRaised == pc \in {"handler", "failed"} /\ ~stored

\* the record the rendering passes supplied last for rank r
Rendered(r) == IF At(items_pw2, r) # NoProduct THEN At(items_pw2, r) ELSE At(items_pw, r)

\* C1: with a static pass of 45 records for page 1 and 38 for page 2, the
\* rendering fallback runs and the returned list keeps the static records
\* at ranks 1..45 and has the rendering passes' records at ranks 46..100.
C1_StaticKeptBelowThreshold ==
  (FetchReturned /\ Yield(items_http, 0) = 45 /\ Yield(items_http, 1) = 38)
    => /\ pw_passes >= 1
       /\ \A r \in 1..45 : At(items, r) = At(items_http, r)
       /\ \A r \in 46..100 : Rendered(r) # NoProduct => At(items, r) = Rendered(r)

\* C2: fetch_products never raises, whatever the transports do.
C2_FetchNeverRaises == ~FetchRaised

\* C3 as stated: with a static yield of at least 96 the rendering strategy
\* is not invoked and the returned list is exactly the static records.
C3_StaticAcceptedAsIs ==
  Len(items_http) >= 96
    => /\ pw_passes = 0
       /\ FetchReturned => items = items_http

\* C3 as amended: with a static yield of at least 96 the pass of step 2 is
\* skipped; the rendering strategy runs once (the retry of step 3) when the
\* yield is below 100 and not at all when it is 100; the returned list is
\* the static records when the yield is 100, and otherwise holds at every
\* rank the retry's record if it supplied one, else the static record.
C3_StaticAcceptedThenRetried ==
  Len(items_http) >= 96
    => /\ pw_passes = (IF Len(items_http) < 100 THEN 1 ELSE 0)
       /\ fp_step # 2
       /\ items_pw = <<>>
       /\ FetchReturned =>
            /\ Len(items_http) = 100 => items = items_http
            /\ \A r \in 1..100 :
                 At(items, r) = IF At(items_pw2, r) # NoProduct
                                THEN At(items_pw2, r) ELSE At(items_http, r)

C3_Witness ==
  /\ FetchReturned
  /\ Len(items_http) \in 96..99
  /\ pw_passes = 1
  /\ items # items_http
  /\ \E r \in 1..100 : At(items_pw2, r) = NoProduct /\ At(items, r) # NoProduct

\* C4: no two records of the returned list share an asin.
C4_UniqueAsins ==
  FetchReturned => Cardinality({items[i].asin : i \in 1..Len(items)}) = Len(items)

\* C5: merge_by_rank(A, B, C) holds at each rank 1..100 the record of C if
\* C has one, else B's, else A's, and nothing else; the three groupings
\* agree; records are placed by their rank field (the result is in rank
\* order whatever the order of the lists).
Precedence(r) ==
  IF At(list_c, r) # NoProduct THEN At(list_c, r)
  ELSE IF At(list_b, r) # NoProduct THEN At(list_b, r)
  ELSE At(list_a, r)

\* the ranks that occur in an input or in the result; at any other rank
\* both the result and the three inputs have no record
MergeRanks == Ranks(list_a) \cup Ranks(list_b) \cup Ranks(list_c) \cup Ranks(merged_flat)

C5_MergePrecedence ==
  merge_pc = "done"
    => /\ \A r \in MergeRanks \cap 1..100 : At(merged_flat, r) = Precedence(r)
       /\ Ranks(merged_flat) \subseteq 1..100
       /\ StrictlyIncreasing(merged_flat)
       /\ merged_left = merged_flat
       /\ merged_right = merged_flat

C5_Witness ==
  /\ merge_pc = "done"
  /\ At(list_a, 1) # NoProduct
  /\ At(list_c, 1) # NoProduct
  /\ At(list_a, 1) # At(list_c, 1)
  /\ Len(list_b) = 2 /\ list_b[1].rank = 100 /\ list_b[2].rank = 1
  /\ Len(merged_flat) = 2
  /\ merged_flat[1] = At(list_c, 1)

\* C6: the returned list is in strictly increasing rank order with ranks in
\* 1..100, and a rank is missing from it only if no collection pass (static
\* or rendering) supplied a record for it.
C6_OrderedAndComplete ==
  FetchReturned
    => /\ StrictlyIncreasing(items)
       /\ Ranks(items) \subseteq 1..100
       /\ (Ranks(items_http) \cup Ranks(items_pw) \cup Ranks(items_pw2)) \subseteq Ranks(items)

\* the asin parse_http resolves on candidate i (line 196)
AsinOf(i) == extract_asin_from_node(candidates[i].src)

\* C7: the output of a page parse has no two records with the same asin,
\* and the record of an asin is the one of its first candidate.
FirstWith(a) ==
  CHOOSE i \in 1..Len(candidates) :
    AsinOf(i) = a /\ \A j \in 1..(i - 1) : AsinOf(j) # a

C7_UniqueFirstWins ==
  parse_pc = "done"
    => /\ \A i, j \in 1..Len(out) : i # j => out[i].asin # out[j].asin
       /\ \A k \in 1..Len(out) :
            /\ \E i \in 1..Len(candidates) : AsinOf(i) = out[k].asin
            /\ out[k].title = candidates[FirstWith(out[k].asin)].title

C7_Witness ==
  /\ parse_pc = "done"
  /\ \E i, j \in 1..Len(candidates) :
       /\ i < j
       /\ AsinOf(i) = AsinOf(j)
       /\ candidates[i].title # ""
       /\ candidates[j].title # ""
       /\ candidates[i].title # candidates[j].title
       /\ \E k \in 1..Len(out) :
            out[k].asin = AsinOf(i) /\ out[k].title = candidates[i].title

\* C8: a page parse for page index p emits at most 50 records, with ranks
\* in p*50+1 .. p*50+50, strictly increasing.
C8_PageRanks ==
  parse_pc = "done"
    => /\ Len(out) <= 50
       /\ \A k \in 1..Len(out) :
            out[k].rank \in (parse_page_idx * 50 + 1)..(parse_page_idx * 50 + 50)
       /\ StrictlyIncreasing(out)

C8_Witness == parse_pc = "done" /\ parse_page_idx = 1 /\ Len(out) = 50

\* C9: a notification that fails to be delivered never fails the run once
\* the snapshot is stored.
NotifyFailed == notify \in {"non2xx", "timeout", "connerr"}

C9_NotifyFailureNotFatal == (stored /\ NotifyFailed) => pc \notin {"handler", "failed"}

\* C10: an accepted candidate (non-empty asin not met before, non-empty
\* title) whose rank hint h is in 1..50 and was not taken by an earlier
\* accepted candidate is emitted at rank page_idx*50 + h, wherever it
\* stands in the candidate list.
Accepted(i) ==
  /\ AsinOf(i) # EmptyAsin
  /\ candidates[i].title # ""
  /\ \A j \in 1..(i - 1) : AsinOf(j) # AsinOf(i)

HintFree(i) ==
  /\ candidates[i].rank_in_page \in 1..50
  /\ \A j \in 1..(i - 1) :
       candidates[j].rank_in_page = candidates[i].rank_in_page => ~Accepted(j)

C10_HintedPlacedAtHint ==
  parse_pc = "done"
    => \A i \in 1..Len(candidates) :
         (Accepted(i) /\ HintFree(i))
           => At(out, parse_page_idx * 50 + candidates[i].rank_in_page)
                = Product(parse_page_idx * 50 + candidates[i].rank_in_page,
                          AsinOf(i), candidates[i].title)

C10_Witness ==
  /\ parse_pc = "done"
  /\ \E i, j \in 1..Len(candidates) :
       /\ j < i
       /\ Accepted(j) /\ candidates[j].rank_in_page = NoRank
       /\ Accepted(i) /\ HintFree(i) /\ candidates[i].rank_in_page = 50
       /\ At(out, parse_page_idx * 50 + 50).asin = AsinOf(i)
       /\ At(out, parse_page_idx * 50 + 1).asin = AsinOf(j)

\* C11: in a page parse the accepted candidates without a usable hint
\* (none, out of 1..50, or already taken) fill the slots not bound by a hint
\* first in, first out: the k-th of them in encounter order is emitted at
\* the k-th unbound slot in increasing slot order.
Overflow == {i \in 1..Len(candidates) : Accepted(i) /\ ~HintFree(i)}

BoundSlots == {candidates[i].rank_in_page : i \in {j \in 1..Len(candidates) : Accepted(j) /\ HintFree(j)}}

UnboundSlots == (1..50) \ BoundSlots

\* the k-th element of the set S of integers, in increasing order
Kth(S, k) == CHOOSE x \in S : Cardinality({y \in S : y < x}) = k - 1

C11_OverflowFifo ==
  parse_pc = "done"
    => \A k \in 1..Cardinality(Overflow) :
         k <= Cardinality(UnboundSlots)
           => At(out, parse_page_idx * 50 + Kth(UnboundSlots, k))
                = Product(parse_page_idx * 50 + Kth(UnboundSlots, k),
                          AsinOf(Kth(Overflow, k)),
                          candidates[Kth(Overflow, k)].title)

\* slots 1 and 2 bound, then two candidates without usable hint: the first
\* is emitted at slot 3 and the second at slot 4
C11_Witness ==
  /\ parse_pc = "done"
  /\ BoundSlots = {1, 2}
  /\ Cardinality(Overflow) = 2
  /\ AsinOf(Kth(Overflow, 1)) # AsinOf(Kth(Overflow, 2))
  /\ At(out, parse_page_idx * 50 + 3).asin = AsinOf(Kth(Overflow, 1))
  /\ At(out, parse_page_idx * 50 + 4).asin = AsinOf(Kth(Overflow, 2))

\* C12: merge_by_rank is idempotent: for a list A whose records have
\* distinct ranks in 1..100, merge_by_rank(A, A) holds the same set of
\* (rank, record) pairs as A.
Records(L) == {L[i] : i \in 1..Len(L)}

DistinctRanks(L) == \A i, j \in 1..Len(L) : i # j => L[i].rank # L[j].rank

C12_MergeIdempotent ==
  (merge_pc = "done" /\ DistinctRanks(list_a) /\ Ranks(list_a) \subseteq 1..100)
    => /\ Records(merged_self) = Records(list_a)
       /\ Len(merged_self) = Len(list_a)

C12_Witness ==
  /\ merge_pc = "done"
  /\ DistinctRanks(list_a)
  /\ Ranks(list_a) = {1, 100}
  /\ list_a[1].rank = 100
  /\ Records(merged_self) = Records(list_a)
  /\ merged_self # list_a

\* C13: on the same ordered sequence of candidates (asin sources on the
\* node, its ancestors and descendants, rank hint, title; empty titles and
\* repeated asins included) the in-page routine of the rendering strategy
\* and parse_http produce the same assignment of ranks to asins.
RankAsin(L) == {<<L[i].rank, L[i].asin>> : i \in 1..Len(L)}

C13_JsMirrorsParser == parse_pc = "done" => RankAsin(js_out) = RankAsin(out)

\* C14: given today's and the previous day's records, build_sections
\* returns normally and its OUT section lists exactly the products whose
\* previous rank is in 1..70 and whose key is absent today, by ascending
\* previous rank, at most 5 of them.
OutRanks(today, prev) ==
  {prev[i].rank : i \in {j \in 1..Len(prev) : prev[j].rank \in 1..70 /\ prev[j].asin \notin Keys(today)}}

Min(a, b) == IF a < b THEN a ELSE b

\* the keys of the expected OUT entries, in the order of the section
ExpectedOuts(today, prev) ==
  [k \in 1..Min(5, Cardinality(OutRanks(today, prev))) |-> At(prev, Kth(OutRanks(today, prev), k)).asin]

C14_OutsReported ==
  (sections # "none" /\ items # <<>> /\ df_prev # <<>>)
    => /\ sections = "returned"
       /\ outs = ExpectedOuts(items, df_prev)

\* C15: over the positive amounts found in a card: exactly one amount is
\* the current price and the original price is absent; with two or more
\* the current price is the minimum and the original price the maximum,
\* absent if both are equal.
Positive == {price_text[i] : i \in {j \in 1..Len(price_text) : price_text[j] > 0}}

PositiveCount == Cardinality({j \in 1..Len(price_text) : price_text[j] > 0})

C15_PriceResolution ==
  price_pc = "done"
    => /\ PositiveCount = 1 => (sale \in Positive /\ orig = NoPrice)
       /\ PositiveCount >= 2 =>
            /\ sale \in Positive /\ \A v \in Positive : sale <= v
            /\ IF Cardinality(Positive) = 1 THEN orig = NoPrice
               ELSE orig \in Positive /\ \A v \in Positive : v <= orig
       /\ price_text = <<1999, 2499>> => (sale = 1999 /\ orig = 2499)
       /\ price_text = <<1999>> => (sale = 1999 /\ orig = NoPrice)

\* the original price stands first in the text and a third amount lies
\* between the two
C15_Witness ==
  /\ price_pc = "done"
  /\ price_text = <<2499, 7500, 1999>>
  /\ sale = 1999
  /\ orig = 7500

\* C16: the discount is 25 for original 100.00 and sale 75.00 and absent
\* (not 0) for original 100.00 and sale 100.00; it is absent unless both
\* prices are positive and the original price is at least the price.
C16_Discount ==
  price_pc = "done"
    => /\ Positive = {10000, 7500} => discount_percent = 25
       /\ Positive = {10000} => discount_percent = NoDiscount
       /\ discount_percent # NoDiscount => (sale > 0 /\ orig > 0 /\ orig >= sale)

C16_Witness ==
  /\ price_pc = "done"
  /\ price_text = <<7500, 10000>>
  /\ discount_percent = 25

C16_WitnessEqual ==
  /\ price_pc = "done"
  /\ price_text = <<10000, 10000>>
  /\ sale = 10000
  /\ discount_percent = NoDiscount

\* C17: in a run of fetch_products the static pass runs once and first
\* (no rendering pass has started while it runs, and it is never entered
\* again); at most two rendering passes are started; the pass of step 3 is
\* started exactly when fewer than 100 records are held after step 2 (run
\* or skipped); and when it ends, the returned list holds at each rank its
\* record if it has one, else the record held before.
\* fetch_by_http is running
InStatic == pc \in {"http", "http_got", "http_raise"}

StaticFirst == InStatic => (pw_passes = 0 /\ fp_step = 1)

StaticOnce == ~InStatic => ~InStatic'

\* fetch_products is past step 2 in the next state
Step2Over == pc = "fp_step2" \/ (pc = "fp_step1" /\ fp_step' # 2)

Step3Rule ==
  Step2Over
    => /\ (pc' = "pw" /\ fp_step' = 3 /\ pw_passes' = pw_passes + 1) <=> Len(items') < 100
       /\ pc' = "store" <=> Len(items') >= 100

Step3Merged ==
  pc = "fp_step3"
    => /\ pc' = "store"
       /\ \A r \in 1..100 :
            At(items', r) = IF At(all_items, r) # NoProduct THEN At(all_items, r) ELSE At(items, r)

C17_PassOrder ==
  /\ [](StaticFirst /\ pw_passes <= 2)
  /\ [][StaticOnce /\ Step3Rule /\ Step3Merged]_vars

\* both rendering passes ran and the second replaced a record of the first
C17_Witness ==
  /\ FetchReturned
  /\ pw_passes = 2
  /\ \E r \in 1..100 :
       /\ At(items_pw, r) # NoProduct
       /\ At(items_pw2, r) # NoProduct
       /\ At(items_pw, r).asin # At(items_pw2, r).asin
       /\ At(items, r) = At(items_pw2, r)
  /\ \E r \in 1..100 : At(items_pw2, r) = NoProduct /\ At(items, r) # NoProduct

\* a candidate URL of the current page slot has just failed, in either
\* strategy
UrlFailure == pc \in {"http_raise", "pw_raise"}

\* a candidate URL of the current page slot has just returned got
UrlReturned == pc \in {"http_got", "pw_got"}

\* the pass goes on with the next candidate URL of the same page slot
NextCandidate ==
  /\ url_i' = url_i + 1
  /\ page_idx' = page_idx
  /\ pc' = (IF pc \in {"http_got", "http_raise"} THEN "http" ELSE "pw")

\* the page slot ends contributing the records g, and the pass goes on with
\* the next page or returns to fetch_products
SlotEnds(g) ==
  /\ all_items' = all_items \o g
  /\ url_i' = 0
  /\ \/ page_idx' = page_idx + 1 /\ pc' = (IF pc \in {"http_got", "http_raise"} THEN "http" ELSE "pw")
     \/ page_idx = NumPages - 1 /\ pc' \in {"fp_step1", "fp_step2", "fp_step3"}

\* C18: in both strategies a failure on a candidate URL is swallowed and
\* the next candidate of the slot is tried; after the last candidate the
\* slot ends and collection continues, the slot contributing no record if
\* every candidate failed.
C18_UrlFailureSwallowed ==
  [][UrlFailure
       => IF url_i < NumUrls - 1
          THEN NextCandidate
          ELSE SlotEnds(got) /\ (url_errs = NumUrls => all_items' = all_items)]_vars

\* C19: http_fetch_page makes at most 3 attempts for a URL; a 429 or any
\* other failure is a failed attempt, followed by a pause of 1.2 s times the
\* attempt number; after a failure of attempt 1 or 2 the URL is requested
\* again, after a success the parse is returned with no further request,
\* and failure is signalled only after the third failed attempt.
Succeeds == pc' = "http_got" /\ attempt' = attempt /\ last_err' = last_err

Retries ==
  /\ pc' = "http"
  /\ attempt + 1 < 3
  /\ attempt' = attempt + 1
  /\ last_err' \in {"429", "timeout"}
  /\ backoff' = 12 * (attempt + 1)
  /\ UNCHANGED <<url_i, page_idx, got>>

GivesUp ==
  /\ pc' = "http_raise"
  /\ attempt = 2
  /\ last_err' \in {"429", "timeout"}
  /\ backoff' = 36

C19_ThreeAttempts ==
  /\ [](attempt \in 0..2 /\ (pc = "http_raise" => attempt = 2))
  /\ [][pc = "http" => (Succeeds \/ Retries \/ GivesUp)]_vars
  /\ [][pc = "http_got" => attempt' = 0]_vars

\* the third attempt succeeds after a rate-limit response
C19_Witness ==
  /\ pc = "http_got"
  /\ attempt = 2
  /\ last_err = "429"
  /\ backoff = 24
  /\ Len(got) = 50

\* C20: in a page slot the candidate URLs are tried in their listed order;
\* the first one that returns at least 48 records ends the slot with these
\* records, so that no later URL of the slot is requested; a later URL is
\* requested only when every earlier one returned fewer than 48 records
\* or failed.
C20_FirstGoodUrl ==
  /\ [](url_i \in 0..(NumUrls - 1))
  /\ [](url_i > 0 /\ pc \in {"http", "pw"} => Len(got) < 48)
  /\ [][(UrlReturned /\ Len(got) >= 48) => SlotEnds(got)]_vars
  /\ [][(UrlReturned /\ Len(got) < 48 /\ url_i < NumUrls - 1) => NextCandidate]_vars
  /\ [][url_i' # url_i
          => \/ url_i' = url_i + 1 /\ page_idx' = page_idx /\ (UrlFailure \/ UrlReturned)
                /\ Len(got) < 48
             \/ url_i' = 0 /\ pc' \notin {"handler", "failed"}]_vars

\* on the second page slot the first URL under-yields and the second is
\* accepted
C20_Witness ==
  /\ pc = "pw_got"
  /\ page_idx = 1
  /\ url_i = 1
  /\ Len(got) = 50
  /\ Len(all_items) = 50

\* C21: after the slot walk of a page parse no slot of 1..50 is empty while
\* overflow records remain: every overflow record was emitted or all 50
\* slots are filled, and the number of emitted records is the smaller of
\* 50 and the number of accepted candidates.
AcceptedCount == Cardinality({i \in 1..Len(candidates) : Accepted(i)})

C21_NoEmptySlotWithOverflow ==
  parse_pc \in {"js", "done"}
    => /\ extras = <<>> \/ Len(out) = 50
       /\ Len(out) = Min(50, AcceptedCount)

\* 51 accepted candidates: the page is full and one overflow record is left
C21_Witness ==
  /\ parse_pc = "done"
  /\ AcceptedCount = 51
  /\ Len(out) = 50
  /\ Len(extras) = 1

\* C22: fetch_page_playwright tries to recover only when the first
\* evaluation gave fewer than 45 records (or failed). For page index 0 the
\* page is reloaded at most once and evaluated again at most once. For page
\* index 1 the first page is opened and the next-page click tried, the href
\* navigation is tried only if no click succeeded, and after arriving at
\* most two evaluations are made, the second only if the first gave fewer
\* than 45 records.
Recovery == reloads > 0 \/ nav_first

NavSucceeded == click_ok \/ href_nav = "ok"

C22_RecoveryManeuvers ==
  /\ Recovery => Len(first_data) < 45
  /\ render_page = 0
       => reloads <= 1 /\ ~nav_first /\ ~click_ok /\ href_nav = "none" /\ Len(post_evals) <= 1
  /\ render_page = 1 => reloads = 0
  /\ (click_ok \/ href_nav # "none") => nav_first
  /\ href_nav # "none" => ~click_ok
  /\ Len(post_evals) <= 2
  /\ (render_page = 1 /\ post_evals # <<>>) => NavSucceeded
  /\ Len(post_evals) = 2 => (post_evals[1].ok /\ Len(post_evals[1].rows) < 45)

\* page index 1: no click succeeded, the href navigation did, and the
\* second evaluation after arriving gave the full page
C22_Witness ==
  /\ render_pc = "returned"
  /\ render_page = 1
  /\ href_nav = "ok"
  /\ Len(post_evals) = 2
  /\ Len(first_data) = 44
  /\ Len(render_out) = 50

\* C23: the browser session is scoped to one call of fetch_page_playwright:
\* at most one session is open at any time, a call that gets past the launch
\* has launched its own session, and no session is open once the call has
\* returned or raised (also when the navigation raised), so that the next
\* call starts without one.
InCall == render_pc \notin {"idle", "launch", "returned", "raised"}

C23_SessionScoped ==
  /\ browser_open \in {0, 1}
  /\ launches <= calls
  /\ InCall => (browser_open = 1 /\ launches = calls)
  /\ render_pc \in {"launch", "returned", "raised"} => browser_open = 0
  /\ render_pc = "launch" => launches = calls - 1

\* the second call launched its own session and its navigation raised
C23_Witness ==
  /\ render_pc = "raised"
  /\ calls = 2
  /\ launches = 2
  /\ browser_open = 0

\* the list L holds a record of asin a
Emits(L, a) == \E k \in 1..Len(L) : L[k].asin = a

\* C24: a candidate without resolvable title is dropped alone: a later
\* candidate of the same page with the same asin and a title is still
\* emitted (as long as the page has a slot left), by parse_http and by the
\* in-page routine.
C24_TitlelessDroppedAlone ==
  parse_pc = "done"
    => \A i, j \in 1..Len(candidates) :
         (i < j /\ candidates[i].title = "" /\ candidates[j].title # "")
           => /\ (AsinOf(i) = AsinOf(j) /\ AsinOf(j) # EmptyAsin /\ Len(out) < 50)
                   => Emits(out, AsinOf(j))
              /\ LET a == extractASIN(candidates[i].src)
                     b == extractASIN(candidates[j].src)
                 IN (a = b /\ b # EmptyAsin /\ Len(js_out) < 50) => Emits(js_out, b)

\* the candidates of the current page slot that returned at least 48 records
GoodUrls == {k \in 1..Len(slot_log) : slot_log[k] >= UrlAccept}

\* the candidates of the current page slot that returned without raising
ReturnedUrls == {k \in 1..Len(slot_log) : slot_log[k] # UrlRaised}

\* the number of records of the candidate the slot takes its records from:
\* the first that returned at least 48, else the last that returned
DueYield ==
  IF GoodUrls # {} THEN slot_log[CHOOSE k \in GoodUrls : \A j \in GoodUrls : k <= j]
  ELSE IF ReturnedUrls # {} THEN slot_log[CHOOSE k \in ReturnedUrls : \A j \in ReturnedUrls : j <= k]
  ELSE 0

\* fetch_by_http leaves the current page slot
StaticSlotEnd ==
  /\ pc \in {"http_got", "http_raise"}
  /\ url_i' = 0
  /\ page_idx' # page_idx \/ pc' = "fp_step1"

\* C25: in fetch_by_http got holds the records of the candidate URL that
\* returned last, and a page slot contributes got: the records of the first
\* candidate that returned at least 48 records (no candidate is tried after
\* it), else those of the last candidate that returned without raising,
\* whatever an earlier candidate had returned, and nothing if every
\* candidate raised
C25_SlotContribution ==
  [][/\ (pc = "http" /\ pc' = "http_got") => Len(got') = slot_log'[Len(slot_log')]
     /\ (InStatic /\ got' # got) => ((pc = "http" /\ pc' = "http_got") \/ StaticSlotEnd)
     /\ StaticSlotEnd =>
          /\ all_items' = all_items \o got
          /\ Len(got) = DueYield
          /\ \A k \in GoodUrls : k = Len(slot_log)
          /\ (ReturnedUrls = {} => got = <<>>)]_vars

\* the first slot has contributed the 38 records of its last candidate,
\* though its first candidate had returned 45 and its second had raised
C25_Witness ==
  /\ pc = "http" /\ page_idx = 1 /\ url_i = 0 /\ attempt = 0
  /\ slot_log = <<45, UrlRaised, 38>>
  /\ Len(all_items) = 38

\* the steps the iteration on the current candidate URL may still take:
\* at most MaxAttempts requests and the end of the iteration
UrlSteps == MaxAttempts + 1

UrlStepsLeft ==
  CASE pc = "http" -> (MaxAttempts - attempt) + 1
    [] pc = "pw" -> 2
    [] OTHER -> 1

\* the steps of a whole pass, and the step of fetch_products that follows it
PassSteps == NumPages * NumUrls * UrlSteps + 1

\* the passes fetch_products may still start after the current one
PassesAfter == CASE fp_step = 1 -> 2 [] fp_step = 2 -> 1 [] OTHER -> 0

\* a bound of the steps the run of fetch_products may still take
StepsLeft ==
  IF pc \in {"http", "http_got", "http_raise", "pw", "pw_got", "pw_raise"}
  THEN UrlStepsLeft + (NumUrls - 1 - url_i) * UrlSteps
         + (NumPages - 1 - page_idx) * NumUrls * UrlSteps
         + 1 + PassesAfter * PassSteps
  ELSE IF pc \in {"fp_step1", "fp_step2", "fp_step3"}
  THEN 1 + PassesAfter * PassSteps
  ELSE 0

\* C27: a run of fetch_products makes at most 18 static requests and opens
\* at most 12 browser sessions, and it ends: the bound StepsLeft of the
\* steps it may still take is never negative and every step lowers it, so
\* that the run returns or raises within StepsLeft steps of its start
C27_TransportBudget ==
  /\ [](requests <= 18 /\ sessions <= 12)
  /\ [](StepsLeft >= 0 /\ (StepsLeft = 0 <=> (FetchReturned \/ FetchRaised)))
  /\ [][StepsLeft' < StepsLeft]_vars

\* fetch_products has returned after 18 static requests and 12 sessions
C27_Witness == metered /\ FetchReturned /\ requests = 18 /\ sessions = 12

\* the call for page index 1 has returned after a click or an href
\* navigation to the next page succeeded
ReturnedAfterNav == render_pc = "returned" /\ render_page = 1 /\ NavSucceeded

\* the records of the last evaluation made after the reload or the
\* navigation: none if it raised
LastEvalRows == post_evals[Len(post_evals)].rows

\* the call for page index 0 has returned after its reload evaluation raised
ReturnedAfterFailedReload ==
  /\ render_pc = "returned" /\ render_page = 0
  /\ post_evals # <<>> /\ ~post_evals[1].ok

\* C26: for page index 1, once the click or the href navigation has
\* succeeded, the returned records are those of the last evaluation made
\* after the navigation, and none if that evaluation raised (so the first
\* evaluation's records are returned only when no navigation succeeded);
\* for page index 0 a failed reload evaluation keeps the first
\* evaluation's records
C26_LastEvaluationReturned ==
  /\ ReturnedAfterNav => (post_evals # <<>> /\ render_out = LastEvalRows)
  /\ ReturnedAfterFailedReload => render_out = first_data

\* C26, amended: the same provided no wait after the navigation raised; if
\* a wait of the scroll that follows the navigation raised, no evaluation
\* was made and the first evaluation's records are returned; if a wait
\* before the second evaluation raised, no records are returned
C26_LastEvaluationUnlessWaitRaised ==
  /\ (ReturnedAfterNav /\ wait_err = "none")
       => (post_evals # <<>> /\ render_out = LastEvalRows)
  /\ (ReturnedAfterNav /\ wait_err = "scroll")
       => (post_evals = <<>> /\ render_out = first_data)
  /\ (ReturnedAfterNav /\ wait_err = "retry")
       => (Len(post_evals) = 1 /\ render_out = <<>>)
  /\ ReturnedAfterFailedReload => render_out = first_data

\* after the click succeeded the second evaluation raised: the call returns
\* no records though its first evaluation had given 44
C26_Witness ==
  /\ ReturnedAfterNav
  /\ click_ok
  /\ Len(first_data) = 44
  /\ Len(post_evals) = 2 /\ ~post_evals[2].ok
  /\ wait_err = "none"
  /\ render_out = <<>>

====
